---------------------------- MODULE Spec2Model ----------------------------
(*************************************************************************)
(* Ledger engine of the blockchain node (src/src/blockchain.rs), the     *)
(* command dispatcher that serialises access to it (src/src/main.rs) and *)
(* the propagation layer next to it (src/src/p2p.rs).                    *)
(*                                                                       *)
(* Representation                                                        *)
(*   String (hash, previous_hash)  sequence of hexadecimal digit values  *)
(*                                 0..15; "0" is <<0>>                   *)
(*   String (addresses)            TLA+ strings                          *)
(*   f32 amounts                   integers of small magnitude, on which *)
(*                                 f32 addition and negation are exact   *)
(*   u64 nonce                     0..MaxNonce, MaxNonce standing for    *)
(*                                 u64::MAX                              *)
(*   SHA-256 over the JSON text    a fixed deterministic digest of the   *)
(*                                 same five fields, rendered as HashLen *)
(*                                 hexadecimal digits                    *)
(*************************************************************************)
EXTENDS Integers, Sequences, FiniteSets, TLC

VARIABLES
    chain,                  \* Blockchain.chain : Vec<Block>
    pending_transactions,   \* Blockchain.pending_transactions : Vec<Transaction>
    difficulty,             \* Blockchain.difficulty : usize
    mining_reward,          \* Blockchain.mining_reward : f32
    new_block,              \* the candidate block of a running mine_pending_transactions
    pc,                     \* position of the running ledger call
    call,                   \* the last ledger call: its arguments and the state it started from
    queue,                  \* the command channel: mpsc::channel::<BlockchainCommand>
    cur,                    \* the command the dispatcher task is executing
    prod,                   \* what each producer task is doing
    resp,                   \* the reply channel of each producer's command
    sent,                   \* number of commands sent so far
    lock,                   \* who holds the ledger's Mutex
    disk,                   \* the file system: what each path holds
    saved,                  \* the ledger a save wrote to each path, if nothing else wrote to it since
    entered,                \* every command sent, in the order of entry into the channel
    handled,                \* number of commands the dispatcher task has taken
    known_peers,            \* P2P.known_peers : HashSet<PeerId>
    partial_view,           \* the floodsub partial view of the swarm's behaviour
    responses,              \* the channel from the behaviour's event handlers to P2P::run
    node,                   \* position of the propagation task
    heard,                  \* the gossip payloads received so far
    mdns_nodes,             \* the (peer, address) entries the discovery service holds
    last_event,             \* the kind of the latest discovery event handled for each peer
    net                     \* what the swarm was asked to do: listen, dial, publish

lvars == <<chain, pending_transactions, difficulty, mining_reward, new_block, pc, call>>
dvars == <<queue, cur, prod, resp, sent>>
svars == <<lock, disk, saved>>
hvars == <<entered, handled>>
nvars == <<known_peers, partial_view, responses, node, heard, mdns_nodes, last_event, net>>
ovars == <<dvars, svars, hvars, nvars>>
vars == <<lvars, ovars>>

-----------------------------------------------------------------------------
(* Bounds of the model *)

MaxNonce == 3       \* largest nonce value (u64::MAX in the program)
MaxChain == 3       \* blocks in the chain, genesis included
MaxPending == 2     \* user transactions in the pool
MaxCommands == 4    \* commands sent to the dispatcher
MaxBlocks == 3      \* blocks of a chain assembled by hand
NumProducers == 2   \* tasks holding a sender of the command channel
MaxValidations == 1 \* validations asked of the dispatcher over a hand-assembled chain
MaxGossip == 1      \* gossip payloads received
MaxResponses == 2   \* responses waiting between the event handlers and P2P::run
MaxNodeCommands == 2 \* commands sent to the dispatcher of a node that also propagates
MaxReads == 2       \* commands sent to the dispatcher over a hand-assembled chain

(* Program constants *)

HashLen == 64       \* characters of a rendered SHA-256 digest
QueueCap == 100     \* capacity of the command channel

(* Inputs *)

Difficulties == {0, 1, 2, HashLen, HashLen + 1}
Rewards == {100}
Timestamps == {1, 2}
RESERVED == "BLOCKCHAIN"
Addresses == {"Alice", "Bob", "Miner1", RESERVED}
Miners == {"Miner1"}
Tx(s, r, a) == [sender |-> s, receiver |-> r, amount |-> a]
TxChoices == {Tx("Alice", "Bob", 50), Tx(RESERVED, "Bob", 25), Tx("Alice", "Alice", 50)}

NoBlock == [index |-> 0, timestamp |-> 0, transactions |-> <<>>,
            previous_hash |-> <<>>, nonce |-> 0, hash |-> <<>>]
NoTx == [sender |-> "", receiver |-> "", amount |-> 0]
NoCall == [op |-> "new", pool |-> <<>>, len |-> 0, addr |-> "", tx |-> NoTx, result |-> FALSE,
           out |-> ""]

Producers == 1..NumProducers
Cmd(kind, tx, addr, from) == [kind |-> kind, tx |-> tx, addr |-> addr, from |-> from]
NoCmd == Cmd("none", NoTx, "", 0)
DTxChoices == {Tx("Alice", "Bob", 50), Tx(RESERVED, "Bob", 25)}
DBalanceAddrs == {"Alice", "Miner1"}
Commands(p) ==
    {Cmd("AddTransaction", t, "", p) : t \in DTxChoices}
      \cup {Cmd("MineBlock", NoTx, a, p) : a \in Miners}
      \cup {Cmd("GetBalance", NoTx, a, p) : a \in DBalanceAddrs}
      \cup {Cmd("ValidateChain", NoTx, "", p)}
Success(what, value) == [status |-> "Success", what |-> what, value |-> value]
Error(what) == [status |-> "Error", what |-> what, value |-> 0]

Paths == {"blockchain.json"}
NoFile == [kind |-> "absent"]
Garbage == [kind |-> "bytes"]
NoLedger == [chain |-> <<>>, pending_transactions |-> <<>>]
Peers == {"peerA", "peerB"}
MdnsAddrs == {"addr1", "addr2"}
NoSwarm == [binds |-> 0, listening |-> FALSE, dials |-> 0, published |-> <<>>]
\* addresses given on the command line: one that parses and can be used, one
\* that is no multiaddr, one that parses and that the transport refuses
Multiaddrs == {"/ip4/127.0.0.1/tcp/4001", "localhost", "/ip4/127.0.0.1/udp/4001"}
None == "None"

-----------------------------------------------------------------------------
(* Hashing and canonicalisation *)

AddrCode(a) ==
    CASE a = RESERVED -> 1
      [] a = "Alice" -> 2
      [] a = "Bob" -> 3
      [] a = "Miner1" -> 4
      [] OTHER -> 5

TxCode(t) == (AddrCode(t.sender) * 7 + AddrCode(t.receiver) * 3 + (t.amount + 1024)) % 256

RECURSIVE TxsCode(_)
TxsCode(txs) ==
    IF txs = <<>> THEN 7
    ELSE (TxsCode(SubSeq(txs, 1, Len(txs) - 1)) * 5 + TxCode(txs[Len(txs)])) % 256

\* contribution of the characters lo..hi of a string, each weighted by its position
RECURSIVE StrCodeRange(_, _, _)
StrCodeRange(s, lo, hi) ==
    IF lo > hi THEN 0
    ELSE IF lo = hi THEN ((s[lo] + 1) * ((lo % 7) + 1)) % 256
    ELSE CHOOSE sum \in {(StrCodeRange(s, lo, mid) + StrCodeRange(s, mid + 1, hi)) % 256 :
                              mid \in {(lo + hi) \div 2}} : TRUE

StrCode(s) == (3 + StrCodeRange(s, 1, Len(s))) % 256

\* the text that is digested: block_data.to_string()
BlockData(b) ==
    (b.index * 5 + b.timestamp * 11 + TxsCode(b.transactions) * 13
       + StrCode(b.previous_hash) * 3 + b.nonce * 4) % 256

\* k-th character of the lowercase hexadecimal rendering of the digest of d
HexDigit(d, k) ==
    CASE k = 1 -> d % 16
      [] k = 2 -> ((d \div 16) % 4) * 5
      [] OTHER -> ((d \div 64) + d + k) % 16

calculate_hash(b) ==
    CHOOSE digest \in {[k \in 1..HashLen |-> HexDigit(d, k)] : d \in {BlockData(b)}} : TRUE

Block_new(index, timestamp, transactions, previous_hash) ==
    LET block == [index |-> index, timestamp |-> timestamp,
                  transactions |-> transactions, previous_hash |-> previous_hash,
                  nonce |-> 0, hash |-> <<>>]
    IN  [block EXCEPT !.hash = calculate_hash(block)]

\* "0".repeat(difficulty)
Target(d) == [k \in 1..d |-> 0]

\* a loop condition that compares one character too few
NotMined_short(b, d) == d > 0 /\ SubSeq(b.hash, 1, d - 1) # Target(d - 1)

\* the loop condition of mine_block: &self.hash[0..difficulty] != target
NotMined(b, d) == SubSeq(b.hash, 1, d) # Target(d)

-----------------------------------------------------------------------------
(* Ledger engine *)

get_latest_block == chain[Len(chain)]

\* a genesis block that takes the index of a first mined block
create_genesis_block_indexed(ts) == <<Block_new(1, ts, <<>>, <<0>>)>>

\* Blockchain::create_genesis_block on the empty chain
create_genesis_block(ts) == <<Block_new(0, ts, <<>>, <<0>>)>>

\* the process around a new ledger: an unlocked Mutex, nothing sent, no
\* propagation task yet
Idle ==
    /\ lock = "free"
    /\ saved = [path \in Paths |-> NoLedger]
    /\ entered = <<>>
    /\ handled = 0
    /\ known_peers = {}
    /\ partial_view = {}
    /\ responses = <<>>
    /\ node = "off"
    /\ heard = <<>>
    /\ mdns_nodes = {}
    /\ last_event = [peer \in Peers |-> "none"]
    /\ net = NoSwarm

\* Blockchain::new
Init ==
    /\ \E ts \in Timestamps : chain = create_genesis_block(ts)
    /\ pending_transactions = <<>>
    /\ difficulty \in Difficulties
    /\ mining_reward \in Rewards
    /\ new_block = NoBlock
    /\ pc = "ready"
    /\ call = NoCall
    /\ queue = <<>>
    /\ cur = NoCmd
    /\ prod = [p \in Producers |-> "idle"]
    /\ resp = [p \in Producers |-> <<>>]
    /\ sent = 0
    /\ disk = [path \in Paths |-> NoFile]
    /\ Idle

\* an add_transaction that puts the new transaction in front of the pool
add_transaction_front(pool, sender, receiver, amount) ==
    <<Tx(sender, receiver, amount)>> \o pool

\* the effect of Blockchain::add_transaction on the pool
add_transaction(pool, sender, receiver, amount) ==
    Append(pool, Tx(sender, receiver, amount))

\* a call of Blockchain::add_transaction
add_transaction_call(t) ==
    /\ pc = "ready"
    /\ pending_transactions' =
          add_transaction(pending_transactions, t.sender, t.receiver, t.amount)
    /\ call' = [NoCall EXCEPT !.op = "add", !.pool = pending_transactions,
                              !.len = Len(chain), !.tx = t]
    /\ UNCHANGED <<chain, difficulty, mining_reward, new_block, pc>>

AddTransaction ==
    /\ Len(pending_transactions) < MaxPending
    /\ \E t \in TxChoices : add_transaction_call(t)
    /\ UNCHANGED ovars

\* a candidate that copies the latest block's index and link instead of extending them
CandidateBlock_stale(latest_block, ts, pool) ==
    Block_new(latest_block.index, ts, pool, latest_block.previous_hash)

\* the block mine_pending_transactions builds on top of the latest block
CandidateBlock(latest_block, ts, pool) ==
    Block_new(latest_block.index + 1, ts, pool, latest_block.hash)

\* Blockchain::mine_pending_transactions up to the call of mine_block: the
\* reward transaction joins the pool and the candidate block is built
mine_start(addr, ts) ==
    /\ pc = "ready"
    /\ LET pool == add_transaction(pending_transactions, RESERVED, addr, mining_reward)
       IN  /\ pending_transactions' = pool
           /\ new_block' = CandidateBlock(get_latest_block, ts, pool)
    /\ call' = [NoCall EXCEPT !.op = "mine", !.pool = pending_transactions,
                              !.len = Len(chain), !.addr = addr]
    /\ pc' = "mining"
    /\ UNCHANGED <<chain, difficulty, mining_reward>>

MineStart ==
    /\ Len(chain) < MaxChain
    /\ \E addr \in Miners, ts \in Timestamps : mine_start(addr, ts)
    /\ UNCHANGED ovars

\* a loop body that hashes before it sets the nonce
mine_iter_stale(b, n) == [b EXCEPT !.nonce = n, !.hash = calculate_hash(b)]

\* the body of the search loop, leaving the nonce at n
mine_iter(b, n) ==
    LET b1 == [b EXCEPT !.nonce = n]
    IN  [b1 EXCEPT !.hash = calculate_hash(b1)]

\* Block::mine_block: the slice hash[0..difficulty] is out of range
mine_panic ==
    /\ pc = "mining"
    /\ difficulty > Len(new_block.hash)
    /\ pc' = "panicked"
    /\ UNCHANGED <<chain, pending_transactions, difficulty, mining_reward, new_block, call>>

MinePanic == mine_panic /\ UNCHANGED ovars

\* a search loop that goes on two nonces at a time
mine_step_skip ==
    /\ pc = "mining"
    /\ difficulty <= Len(new_block.hash)
    /\ NotMined(new_block, difficulty)
    /\ \/ /\ new_block.nonce + 1 < MaxNonce
          /\ new_block' = mine_iter(new_block, new_block.nonce + 2)
          /\ pc' = pc
       \/ /\ new_block.nonce + 1 >= MaxNonce
          /\ new_block' = mine_iter(new_block, 0)
          /\ pc' = pc
       \/ /\ new_block.nonce + 1 >= MaxNonce
          /\ new_block' = new_block
          /\ pc' = "panicked"
    /\ UNCHANGED <<chain, pending_transactions, difficulty, mining_reward, call>>

\* Block::mine_block: one iteration of the search loop.  At the largest
\* nonce the increment overflows: a build with overflow checks panics, a
\* build without them wraps to 0 and goes on.
mine_step ==
    /\ pc = "mining"
    /\ difficulty <= Len(new_block.hash)
    /\ NotMined(new_block, difficulty)
    /\ \/ /\ new_block.nonce < MaxNonce
          /\ new_block' = mine_iter(new_block, new_block.nonce + 1)
          /\ pc' = pc
       \/ /\ new_block.nonce = MaxNonce
          /\ new_block' = mine_iter(new_block, 0)
          /\ pc' = pc
       \/ /\ new_block.nonce = MaxNonce
          /\ new_block' = new_block
          /\ pc' = "panicked"
    /\ UNCHANGED <<chain, pending_transactions, difficulty, mining_reward, call>>

MineStep == mine_step /\ UNCHANGED ovars

\* a completion that appends the block and forgets to clear the pool
mine_finish_keep ==
    /\ pc = "mining"
    /\ difficulty <= Len(new_block.hash)
    /\ ~NotMined(new_block, difficulty)
    /\ chain' = Append(chain, new_block)
    /\ new_block' = NoBlock
    /\ pc' = "ready"
    /\ UNCHANGED <<pending_transactions, difficulty, mining_reward, call>>

\* a completion that does not wait for the search to reach the target
mine_finish_unmined ==
    /\ pc = "mining"
    /\ difficulty <= Len(new_block.hash)
    /\ chain' = Append(chain, new_block)
    /\ pending_transactions' = <<>>
    /\ new_block' = NoBlock
    /\ pc' = "ready"
    /\ UNCHANGED <<difficulty, mining_reward, call>>

\* a completion that puts the block in the place of the latest one
mine_finish_replace ==
    /\ pc = "mining"
    /\ difficulty <= Len(new_block.hash)
    /\ ~NotMined(new_block, difficulty)
    /\ chain' = [chain EXCEPT ![Len(chain)] = new_block]
    /\ pending_transactions' = <<>>
    /\ new_block' = NoBlock
    /\ pc' = "ready"
    /\ UNCHANGED <<difficulty, mining_reward, call>>

\* Blockchain::mine_pending_transactions after mine_block has returned
mine_finish ==
    /\ pc = "mining"
    /\ difficulty <= Len(new_block.hash)
    /\ ~NotMined(new_block, difficulty)
    /\ chain' = Append(chain, new_block)
    /\ pending_transactions' = <<>>
    /\ new_block' = NoBlock
    /\ pc' = "ready"
    /\ UNCHANGED <<difficulty, mining_reward, call>>

MineFinish == mine_finish /\ UNCHANGED ovars

\* an inner loop that credits the receiver only when the sender is someone else
RECURSIVE BalanceTxs_elseif(_, _, _)
BalanceTxs_elseif(txs, address, balance) ==
    IF txs = <<>> THEN balance
    ELSE LET t == Head(txs)
             b2 == IF t.sender = address THEN balance - t.amount
                   ELSE IF t.receiver = address THEN balance + t.amount ELSE balance
         IN  BalanceTxs_elseif(Tail(txs), address, b2)

\* Blockchain::get_balance: the inner loop over one block's transactions
RECURSIVE BalanceTxs(_, _, _)
BalanceTxs(txs, address, balance) ==
    IF txs = <<>> THEN balance
    ELSE LET t == Head(txs)
             b1 == IF t.sender = address THEN balance - t.amount ELSE balance
             b2 == IF t.receiver = address THEN b1 + t.amount ELSE b1
         IN  BalanceTxs(Tail(txs), address, b2)

\* Blockchain::get_balance: the outer loop over the blocks
RECURSIVE BalanceBlocks(_, _, _)
BalanceBlocks(blocks, address, balance) ==
    IF blocks = <<>> THEN balance
    ELSE BalanceBlocks(Tail(blocks), address,
                       BalanceTxs(Head(blocks).transactions, address, balance))

\* a balance that also counts the transactions waiting in the pool
get_balance_pool(address) ==
    BalanceTxs(pending_transactions, address, BalanceBlocks(chain, address, 0))

get_balance(address) == BalanceBlocks(chain, address, 0)

\* a scan that checks the link of each block and not its stored hash
RECURSIVE ValidFrom_linkonly(_)
ValidFrom_linkonly(i) ==
    IF i > Len(chain) THEN TRUE
    ELSE IF chain[i].previous_hash # chain[i - 1].hash THEN FALSE
    ELSE ValidFrom_linkonly(i + 1)

\* Blockchain::is_chain_valid: the loop from block i (1-based) on
RECURSIVE ValidFrom(_)
ValidFrom(i) ==
    IF i > Len(chain) THEN TRUE
    ELSE IF chain[i].hash # calculate_hash(chain[i]) THEN FALSE
    ELSE IF chain[i].previous_hash # chain[i - 1].hash THEN FALSE
    ELSE ValidFrom(i + 1)

\* Blockchain::is_chain_valid: `for i in 1..self.chain.len()`, 0-based
is_chain_valid == ValidFrom(2)

\* a scan that looks at the link of a block before its stored hash
RECURSIVE PrintedFrom_linkfirst(_)
PrintedFrom_linkfirst(i) ==
    IF i > Len(chain) THEN ""
    ELSE IF chain[i].previous_hash # chain[i - 1].hash THEN "Link to previous hash is broken"
    ELSE IF chain[i].hash # calculate_hash(chain[i]) THEN "Current hash is invalid"
    ELSE PrintedFrom_linkfirst(i + 1)

\* Blockchain::is_chain_valid: the line the loop from block i (1-based) on
\* prints before it returns false
RECURSIVE PrintedFrom(_)
PrintedFrom(i) ==
    IF i > Len(chain) THEN ""
    ELSE IF chain[i].hash # calculate_hash(chain[i]) THEN "Current hash is invalid"
    ELSE IF chain[i].previous_hash # chain[i - 1].hash THEN "Link to previous hash is broken"
    ELSE PrintedFrom(i + 1)

Next == AddTransaction \/ MineStart \/ MinePanic \/ MineStep \/ MineFinish

\* the ledger engine under direct calls
Spec == Init /\ [][Next]_vars

-----------------------------------------------------------------------------
(* Command dispatcher *)

Count(kind) == Len(SelectSeq(queue, LAMBDA c : c.kind = kind))

\* a producer sends one of the commands cmds with a fresh reply channel and
\* awaits the reply
SendOf(p, cmds) ==
    /\ prod[p] = "idle"
    /\ pc # "panicked"
    /\ sent < MaxCommands
    /\ Len(queue) < QueueCap
    /\ \E c \in cmds :
        /\ c.kind = "AddTransaction" =>
              Len(pending_transactions) + Count("AddTransaction") < MaxPending
        /\ c.kind = "MineBlock" =>
              Len(chain) + Count("MineBlock") + (IF pc = "mining" THEN 1 ELSE 0) < MaxChain
        /\ queue' = Append(queue, c)
    /\ prod' = [prod EXCEPT ![p] = "waiting"]
    /\ sent' = sent + 1
    /\ UNCHANGED <<lvars, cur, resp, svars, nvars>>

Send(p) == SendOf(p, Commands(p))

\* a send that leaves the reply in the channel whether or not anyone is
\* still there to receive it
Reply_buffered(c, r) == resp' = [resp EXCEPT ![c.from] = Append(@, r)]

\* let _ = resp_tx.send(response).await
Reply(c, r) ==
    resp' = IF prod[c.from] = "gone" THEN resp ELSE [resp EXCEPT ![c.from] = Append(@, r)]

\* a receive that hands out the command at the head and drops the one that
\* entered last
Recv_last(kind) ==
    /\ pc = "ready"
    /\ queue # <<>>
    /\ Head(queue).kind = kind
    /\ queue' = SubSeq(queue, 1, Len(queue) - 1)

\* the dispatcher task takes the next command: rx.recv()
Recv(kind) ==
    /\ pc = "ready"
    /\ queue # <<>>
    /\ Head(queue).kind = kind
    /\ queue' = Tail(queue)

\* blockchain_clone.lock().unwrap(), the guard living to the end of the arm
WithLock ==
    /\ lock = "free"
    /\ lock' = "free"

DAddTransaction ==
    /\ Recv("AddTransaction")
    /\ WithLock
    /\ add_transaction_call(Head(queue).tx)
    /\ Reply(Head(queue), Success("Transaction added to pending pool", 0))
    /\ UNCHANGED <<cur, prod, sent, disk, saved, nvars>>

\* the MineBlock arm up to the nonce search: the guard is taken and lives
\* across the call of mine_pending_transactions
DMineBlock ==
    /\ Recv("MineBlock")
    /\ lock = "free"
    /\ lock' = "dispatcher"
    /\ \E ts \in Timestamps : mine_start(Head(queue).addr, ts)
    /\ cur' = Head(queue)
    /\ UNCHANGED <<prod, resp, sent, disk, saved, nvars>>

\* one iteration of the search inside the MineBlock arm; a panic unwinds
\* through the guard and poisons the Mutex
DMineStep ==
    /\ mine_step
    /\ lock' = IF pc' = "panicked" THEN "poisoned" ELSE lock
    /\ UNCHANGED <<dvars, disk, saved, nvars>>

DMinePanic ==
    /\ mine_panic
    /\ lock' = "poisoned"
    /\ UNCHANGED <<dvars, disk, saved, nvars>>

\* a MineBlock arm that sends its reply with the guard still alive
DMineReturn_held ==
    /\ cur.kind = "MineBlock"
    /\ mine_finish
    /\ lock' = lock
    /\ Reply(cur, Success("Block mined successfully", 0))
    /\ cur' = NoCmd
    /\ UNCHANGED <<queue, prod, sent, disk, saved, nvars>>

\* the MineBlock arm after mine_pending_transactions has returned
DMineReturn ==
    /\ cur.kind = "MineBlock"
    /\ mine_finish
    /\ lock' = "free"
    /\ Reply(cur, Success("Block mined successfully", 0))
    /\ cur' = NoCmd
    /\ UNCHANGED <<queue, prod, sent, disk, saved, nvars>>

DGetBalance ==
    /\ Recv("GetBalance")
    /\ WithLock
    /\ Reply(Head(queue), Success("Balance", get_balance(Head(queue).addr)))
    /\ UNCHANGED <<lvars, cur, prod, sent, disk, saved, nvars>>

\* a validation that rolls an invalid chain back to its first block
DValidateChain_rollback ==
    /\ Recv("ValidateChain")
    /\ WithLock
    /\ Reply(Head(queue), Success("Blockchain validation",
                                  IF is_chain_valid THEN "Valid" ELSE "Invalid"))
    /\ chain' = IF is_chain_valid THEN chain ELSE SubSeq(chain, 1, 1)
    /\ UNCHANGED <<pending_transactions, difficulty, mining_reward, new_block, pc, call,
                   cur, prod, sent, disk, saved, nvars>>

\* the ValidateChain arm
DValidateChain ==
    /\ Recv("ValidateChain")
    /\ WithLock
    /\ Reply(Head(queue), Success("Blockchain validation",
                                  IF is_chain_valid THEN "Valid" ELSE "Invalid"))
    /\ UNCHANGED <<lvars, cur, prod, sent, disk, saved, nvars>>

\* resp_rx.recv() returns the reply
Receive(p) ==
    /\ prod[p] = "waiting"
    /\ resp[p] # <<>>
    /\ prod' = [prod EXCEPT ![p] = "idle"]
    /\ resp' = [resp EXCEPT ![p] = <<>>]
    /\ UNCHANGED <<lvars, queue, cur, sent, svars, nvars>>

\* resp_rx.recv() returns None: the dispatcher task is gone and with it the
\* command and its reply sender
Abandoned(p) ==
    /\ prod[p] = "waiting"
    /\ pc = "panicked"
    /\ resp[p] = <<>>
    /\ prod' = [prod EXCEPT ![p] = "idle"]
    /\ queue' = SelectSeq(queue, LAMBDA c : c.from # p)
    /\ UNCHANGED <<lvars, cur, resp, sent, svars, nvars>>

\* a producer stops awaiting a reply that has not come yet: the receiver of
\* the reply channel is dropped, and the producer sends nothing more
DropReceiver(p) ==
    /\ prod[p] = "waiting"
    /\ resp[p] = <<>>
    /\ prod' = [prod EXCEPT ![p] = "gone"]
    /\ resp' = resp
    /\ UNCHANGED <<lvars, queue, cur, sent, svars, nvars>>

\* a step that is not recorded in the history of commands
Quiet(A) == A /\ UNCHANGED hvars

DNext ==
    \/ \E p \in Producers : Quiet(Send(p))
    \/ Quiet(DAddTransaction)
    \/ Quiet(DMineBlock)
    \/ Quiet(DMineStep)
    \/ Quiet(DMinePanic)
    \/ Quiet(DMineReturn)
    \/ Quiet(DGetBalance)
    \/ Quiet(DValidateChain)
    \/ \E p \in Producers : Quiet(Receive(p))
    \/ \E p \in Producers : Quiet(Abandoned(p))

\* the ledger engine behind the dispatcher task
SpecDispatch == Init /\ [][DNext]_vars

-----------------------------------------------------------------------------
(* Persistence.  save_to_disk and load_from_disk are called by the dispatcher
   task and are not part of blockchain.rs; they are written here from their
   contract: the file holds chain and pending_transactions, and a load takes
   difficulty and mining_reward from its caller. *)

EncodeTx(t) == <<t.sender, t.receiver, t.amount>>
DecodeTx(e) == Tx(e[1], e[2], e[3])
EncodeBlock(b) ==
    <<b.index, b.timestamp, [i \in 1..Len(b.transactions) |-> EncodeTx(b.transactions[i])],
      b.previous_hash, b.nonce, b.hash>>
DecodeBlock(e) ==
    [index |-> e[1], timestamp |-> e[2],
     transactions |-> [i \in 1..Len(e[3]) |-> DecodeTx(e[3][i])],
     previous_hash |-> e[4], nonce |-> e[5], hash |-> e[6]]

\* the file a ledger is written as
Serialize(c, pool) ==
    [kind |-> "ledger",
     chain |-> [i \in 1..Len(c) |-> EncodeBlock(c[i])],
     pending_transactions |-> [i \in 1..Len(pool) |-> EncodeTx(pool[i])]]

\* a ledger file of another node, which also records that node's parameters
ForeignFile ==
    [kind |-> "ledger",
     chain |-> <<EncodeBlock(Block_new(0, 2, <<>>, <<0>>)),
                 EncodeBlock(Block_new(1, 2, <<Tx(RESERVED, "Bob", 7)>>, <<0>>))>>,
     pending_transactions |-> <<EncodeTx(Tx("Bob", "Alice", 25))>>,
     difficulty |-> 9,
     mining_reward |-> 7]

\* Blockchain::save_to_disk: the outcomes of writing the ledger to path
save_to_disk(path) ==
    {[ok |-> TRUE, disk |-> [disk EXCEPT ![path] = Serialize(chain, pending_transactions)]],
     [ok |-> FALSE, disk |-> disk],
     [ok |-> FALSE, disk |-> [disk EXCEPT ![path] = Garbage]]}

\* Blockchain::load_from_disk: the ledger read from path, with the caller's
\* difficulty and mining_reward
load_from_disk(path, d, r) ==
    LET f == disk[path]
    IN  IF f.kind = "ledger"
        THEN [ok |-> TRUE,
              chain |-> [i \in 1..Len(f.chain) |-> DecodeBlock(f.chain[i])],
              pending_transactions |->
                  [i \in 1..Len(f.pending_transactions) |-> DecodeTx(f.pending_transactions[i])],
              difficulty |-> d,
              mining_reward |-> r]
        ELSE [ok |-> FALSE]

\* a save arm that reports success whatever save_to_disk returns
DSaveChain_ok ==
    /\ Recv("SaveChain")
    /\ WithLock
    /\ LET c == Head(queue)
       IN  \E out \in save_to_disk(c.addr) :
             /\ disk' = out.disk
             /\ Reply(c, Success("Blockchain saved", c.addr))
             /\ saved' = [saved EXCEPT ![c.addr] =
                              [chain |-> chain, pending_transactions |-> pending_transactions]]
    /\ UNCHANGED <<lvars, cur, prod, sent, nvars>>

\* the SaveChain arm; the path travels in the command's addr field
DSaveChain ==
    /\ Recv("SaveChain")
    /\ WithLock
    /\ LET c == Head(queue)
       IN  \E out \in save_to_disk(c.addr) :
             /\ disk' = out.disk
             /\ Reply(c, IF out.ok THEN Success("Blockchain saved", c.addr)
                         ELSE Error("Failed to save blockchain"))
             /\ saved' = [saved EXCEPT ![c.addr] =
                              IF out.ok
                              THEN [chain |-> chain, pending_transactions |-> pending_transactions]
                              ELSE IF out.disk = disk THEN @ ELSE NoLedger]
    /\ UNCHANGED <<lvars, cur, prod, sent, nvars>>

\* a load arm that assigns the loaded chain and keeps the rest of the ledger
DLoadChain_chainonly ==
    /\ Recv("LoadChain")
    /\ WithLock
    /\ LET c == Head(queue)
           loaded_chain == load_from_disk(c.addr, difficulty, mining_reward)
       IN  /\ IF loaded_chain.ok
              THEN /\ chain' = loaded_chain.chain
                   /\ UNCHANGED <<pending_transactions, difficulty, mining_reward>>
                   /\ Reply(c, Success("Blockchain loaded", c.addr))
              ELSE /\ UNCHANGED <<chain, pending_transactions, difficulty, mining_reward>>
                   /\ Reply(c, Error("Failed to load blockchain"))
           /\ call' = [NoCall EXCEPT !.op = "load", !.pool = pending_transactions,
                                     !.len = Len(chain), !.addr = c.addr,
                                     !.result = loaded_chain.ok]
    /\ UNCHANGED <<new_block, pc, cur, prod, sent, disk, saved, nvars>>

\* the LoadChain arm: difficulty and mining_reward are read under the lock,
\* the file is loaded, and `*chain = loaded_chain` replaces the ledger
DLoadChain ==
    /\ Recv("LoadChain")
    /\ WithLock
    /\ LET c == Head(queue)
           loaded_chain == load_from_disk(c.addr, difficulty, mining_reward)
       IN  /\ IF loaded_chain.ok
              THEN /\ chain' = loaded_chain.chain
                   /\ pending_transactions' = loaded_chain.pending_transactions
                   /\ difficulty' = loaded_chain.difficulty
                   /\ mining_reward' = loaded_chain.mining_reward
                   /\ Reply(c, Success("Blockchain loaded", c.addr))
              ELSE /\ UNCHANGED <<chain, pending_transactions, difficulty, mining_reward>>
                   /\ Reply(c, Error("Failed to load blockchain"))
           /\ call' = [NoCall EXCEPT !.op = "load", !.pool = pending_transactions,
                                     !.len = Len(chain), !.addr = c.addr,
                                     !.result = loaded_chain.ok]
    /\ UNCHANGED <<new_block, pc, cur, prod, sent, disk, saved, nvars>>

\* something other than the node writes to a path, or removes the file
ExternalWrite(path) ==
    /\ \E f \in {NoFile, Garbage, ForeignFile} :
         /\ f # disk[path]
         /\ disk' = [disk EXCEPT ![path] = f]
    /\ saved' = [saved EXCEPT ![path] = NoLedger]
    /\ UNCHANGED <<lvars, dvars, lock, nvars>>

PDifficulties == {1}
PCommands(p) ==
    {Cmd("AddTransaction", Tx("Alice", "Bob", 50), "", p), Cmd("MineBlock", NoTx, "Miner1", p)}
      \cup {Cmd("SaveChain", NoTx, path, p) : path \in Paths}
      \cup {Cmd("LoadChain", NoTx, path, p) : path \in Paths}

PInit == Init /\ difficulty \in PDifficulties

PNext ==
    \/ \E p \in Producers : Quiet(SendOf(p, PCommands(p)))
    \/ Quiet(DAddTransaction)
    \/ Quiet(DMineBlock)
    \/ Quiet(DMineStep)
    \/ Quiet(DMineReturn)
    \/ Quiet(DSaveChain)
    \/ Quiet(DLoadChain)
    \/ \E p \in Producers : Quiet(Receive(p))
    \/ \E path \in Paths : Quiet(ExternalWrite(path))

\* the dispatcher task with its save and load arms, over a file system that
\* others write to as well
SpecPersist == PInit /\ [][PNext]_vars

-----------------------------------------------------------------------------
(* Propagation layer (src/src/p2p.rs) *)

GossipBlock == Block_new(1, 2, <<Tx(RESERVED, "Bob", 100)>>, <<0>>)

\* gossip payloads: bytes that are no message, and the four messages
Payloads ==
    {[type |-> "bytes"],
     [type |-> "NewBlock", block |-> GossipBlock],
     [type |-> "NewTransaction", transaction |-> Tx("Bob", "Alice", 25)],
     [type |-> "ChainRequest"],
     [type |-> "ChainResponse", blocks |-> <<GossipBlock>>]}

\* serde_json::from_slice::<BlockchainMessage>
from_slice(data) ==
    IF data.type \in {"NewBlock", "NewTransaction", "ChainRequest", "ChainResponse"}
    THEN [ok |-> TRUE, msg |-> data]
    ELSE [ok |-> FALSE]

\* the BlockchainResponse values of p2p.rs
Blocks(blocks) == [kind |-> "Blocks", blocks |-> blocks, peer |-> ""]
PeerDiscovered(peer) == [kind |-> "PeerDiscovered", blocks |-> <<>>, peer |-> peer]
PeerExpired(peer) == [kind |-> "PeerExpired", blocks |-> <<>>, peer |-> peer]

\* addr.parse::<Multiaddr>()
Parses(addr) == addr # "localhost"

\* whether the TCP transport of P2P::new accepts the address
Supported(addr) == addr = "/ip4/127.0.0.1/tcp/4001"

\* a start that goes on as if it were listening when listen_on fails
P2P_start_lenient(addr) ==
    /\ node = "off"
    /\ IF ~Parses(addr)
       THEN node' = "failed" /\ net' = net
       ELSE /\ net' = [net EXCEPT !.binds = @ + 1, !.listening = Supported(addr)]
            /\ node' = "listening"
    /\ UNCHANGED <<lvars, dvars, svars, known_peers, partial_view, responses, heard,
                   mdns_nodes, last_event>>

\* start_p2p_node: p2p.start(listen_address).await?
P2P_start(addr) ==
    /\ node = "off"
    /\ IF ~Parses(addr)
       THEN node' = "failed" /\ net' = net
       ELSE /\ net' = [net EXCEPT !.binds = @ + 1, !.listening = Supported(addr)]
            /\ node' = IF Supported(addr) THEN "listening" ELSE "panicked"
    /\ UNCHANGED <<lvars, dvars, svars, known_peers, partial_view, responses, heard,
                   mdns_nodes, last_event>>

\* start_p2p_node: if let Some(peer) = peer { p2p.connect(peer).await?; }
P2P_connect(peer) ==
    /\ node = "listening"
    /\ IF peer = None
       THEN node' = "connected" /\ net' = net
       ELSE IF ~Parses(peer)
       THEN node' = "failed" /\ net' = net
       ELSE /\ net' = [net EXCEPT !.dials = @ + 1]
            /\ node' = IF Supported(peer) THEN "connected" ELSE "panicked"
    /\ UNCHANGED <<lvars, dvars, svars, known_peers, partial_view, responses, heard,
                   mdns_nodes, last_event>>

\* what floodsub.publish is given: a topic and the bytes of a message
Published(topic, msg) == [topic |-> topic, data |-> msg]

\* start_p2p_node: p2p.request_blockchain()
request_blockchain ==
    /\ node = "connected"
    /\ net' = [net EXCEPT !.published = Append(@, Published("blocks", [type |-> "ChainRequest"]))]
    /\ node' = "requested"
    /\ UNCHANGED <<lvars, dvars, svars, known_peers, partial_view, responses, heard,
                   mdns_nodes, last_event>>

\* start_p2p_node: p2p.run().await, which never returns
P2P_run ==
    /\ node = "requested"
    /\ node' = "running"
    /\ UNCHANGED <<lvars, dvars, svars, known_peers, partial_view, responses, heard,
                   mdns_nodes, last_event, net>>

\* a handler that does what the TODO of the NewBlock arm says
FloodsubEvent_apply(data) ==
    /\ node = "running"
    /\ Len(heard) < MaxGossip
    /\ heard' = Append(heard, data)
    /\ LET m == from_slice(data)
       IN  /\ responses' =
                 IF m.ok /\ m.msg.type = "ChainResponse"
                 THEN Append(responses, Blocks(m.msg.blocks)) ELSE responses
           /\ chain' =
                 IF m.ok /\ m.msg.type = "NewBlock" THEN Append(chain, m.msg.block) ELSE chain
    /\ Len(responses') <= MaxResponses
    /\ UNCHANGED <<pending_transactions, difficulty, mining_reward, new_block, pc, call,
                   dvars, svars, known_peers, partial_view, node, mdns_nodes, last_event, net>>

\* inject_event(FloodsubEvent::Message): a gossip payload arrives
FloodsubEvent(data) ==
    /\ node = "running"
    /\ Len(heard) < MaxGossip
    /\ heard' = Append(heard, data)
    /\ LET m == from_slice(data)
       IN  responses' =
               IF m.ok /\ m.msg.type = "ChainResponse"
               THEN Append(responses, Blocks(m.msg.blocks)) ELSE responses
    /\ Len(responses') <= MaxResponses
    /\ UNCHANGED <<lvars, dvars, svars, known_peers, partial_view, node, mdns_nodes,
                   last_event, net>>

\* the lists a discovery event can carry: (peer, address) entries, none twice
Lists(entries) ==
    {list \in UNION {[1..n -> entries] : n \in 1..MaxResponses} :
        \A j, k \in DOMAIN list : list[j] = list[k] => j = k}

Range(list) == {list[k] : k \in DOMAIN list}
PeersOf(list) == {list[k][1] : k \in DOMAIN list}

\* self.mdns.has_node(&peer_id)
has_node(nodes, peer) == \E entry \in nodes : entry[1] = peer

\* the latest event of every peer, after an event of this kind with this list
Latest(kind, list) ==
    [peer \in Peers |-> IF peer \in PeersOf(list) THEN kind ELSE last_event[peer]]

\* inject_event(MdnsEvent::Discovered(list)): the discovery service has taken
\* the entries of the list
MdnsDiscovered(list) ==
    /\ node = "running"
    /\ mdns_nodes' = mdns_nodes \cup Range(list)
    /\ partial_view' = partial_view \cup PeersOf(list)
    /\ responses' = responses \o [k \in 1..Len(list) |-> PeerDiscovered(list[k][1])]
    /\ Len(responses') <= MaxResponses
    /\ last_event' = Latest("Discovered", list)
    /\ UNCHANGED <<lvars, dvars, svars, known_peers, node, heard, net>>

\* a handler of Expired that sends PeerExpired only for the peers it removes
MdnsExpired_both(list) ==
    /\ node = "running"
    /\ Range(list) \subseteq mdns_nodes
    /\ mdns_nodes' = mdns_nodes \ Range(list)
    /\ partial_view' = {peer \in partial_view :
                            peer \in PeersOf(list) => has_node(mdns_nodes', peer)}
    /\ LET gone == SelectSeq(list, LAMBDA entry : ~has_node(mdns_nodes', entry[1]))
       IN  responses' = responses \o [k \in 1..Len(gone) |-> PeerExpired(gone[k][1])]
    /\ Len(responses') <= MaxResponses
    /\ last_event' = Latest("Expired", list)
    /\ UNCHANGED <<lvars, dvars, svars, known_peers, node, heard, net>>

\* inject_event(MdnsEvent::Expired(list)): the discovery service has dropped
\* the entries of the list, and may hold other entries of the same peers
MdnsExpired(list) ==
    /\ node = "running"
    /\ Range(list) \subseteq mdns_nodes
    /\ mdns_nodes' = mdns_nodes \ Range(list)
    /\ partial_view' = {peer \in partial_view :
                            peer \in PeersOf(list) => has_node(mdns_nodes', peer)}
    /\ responses' = responses \o [k \in 1..Len(list) |-> PeerExpired(list[k][1])]
    /\ Len(responses') <= MaxResponses
    /\ last_event' = Latest("Expired", list)
    /\ UNCHANGED <<lvars, dvars, svars, known_peers, node, heard, net>>

\* a loop that does what the TODO of the Blocks arm says
RunResponse_merge ==
    /\ node = "running"
    /\ responses # <<>>
    /\ LET response == Head(responses)
       IN  /\ known_peers' =
                 CASE response.kind = "PeerDiscovered" -> known_peers \cup {response.peer}
                   [] response.kind = "PeerExpired" -> known_peers \ {response.peer}
                   [] OTHER -> known_peers
           /\ chain' = IF response.kind = "Blocks" THEN response.blocks ELSE chain
    /\ responses' = Tail(responses)
    /\ UNCHANGED <<pending_transactions, difficulty, mining_reward, new_block, pc, call,
                   dvars, svars, partial_view, node, heard, mdns_nodes, last_event, net>>

\* P2P::run: the arm of select! that receives a response
RunResponse ==
    /\ node = "running"
    /\ responses # <<>>
    /\ LET response == Head(responses)
       IN  known_peers' =
               CASE response.kind = "PeerDiscovered" -> known_peers \cup {response.peer}
                 [] response.kind = "PeerExpired" -> known_peers \ {response.peer}
                 [] OTHER -> known_peers
    /\ responses' = Tail(responses)
    /\ UNCHANGED <<lvars, dvars, svars, partial_view, node, heard, mdns_nodes, last_event,
                   net>>

NDifficulties == {1}
NPeers == {"peerA"}
NMdnsAddrs == {"addr1"}
NMultiaddrs == {"/ip4/127.0.0.1/tcp/4001"}
NCommands(p) ==
    {Cmd("AddTransaction", Tx("Alice", "Bob", 50), "", p), Cmd("MineBlock", NoTx, "Miner1", p),
     Cmd("GetBalance", NoTx, "Bob", p)}

\* a command typed into the interactive shell, or given on the command line
NSend(p) ==
    /\ sent < MaxNodeCommands
    /\ SendOf(p, NCommands(p))

NInit == Init /\ difficulty \in NDifficulties

NNext ==
    \/ \E p \in Producers : Quiet(NSend(p))
    \/ Quiet(DAddTransaction)
    \/ Quiet(DMineBlock)
    \/ Quiet(DMineStep)
    \/ Quiet(DMineReturn)
    \/ Quiet(DGetBalance)
    \/ \E p \in Producers : Quiet(Receive(p))
    \/ \E addr \in NMultiaddrs : Quiet(P2P_start(addr))
    \/ \E peer \in NMultiaddrs \cup {None} : Quiet(P2P_connect(peer))
    \/ Quiet(request_blockchain)
    \/ Quiet(P2P_run)
    \/ \E data \in Payloads : Quiet(FloodsubEvent(data))
    \/ \E list \in Lists(NPeers \X NMdnsAddrs) : Quiet(MdnsDiscovered(list))
    \/ \E list \in Lists(NPeers \X NMdnsAddrs) : Quiet(MdnsExpired(list))
    \/ Quiet(RunResponse)

\* the node: producers, dispatcher task and propagation task
SpecNode == NInit /\ [][NNext]_vars

ADifficulties == {1}
ACommands(p) ==
    {Cmd("AddTransaction", Tx("Alice", "Bob", 50), "", p), Cmd("MineBlock", NoTx, "Miner1", p),
     Cmd("GetBalance", NoTx, "Bob", p), Cmd("ValidateChain", NoTx, "", p),
     Cmd("SaveChain", NoTx, "blockchain.json", p)}

AInit == Init /\ difficulty \in ADifficulties

ANext ==
    \/ \E p \in Producers : Quiet(SendOf(p, ACommands(p)))
    \/ Quiet(DAddTransaction)
    \/ Quiet(DMineBlock)
    \/ Quiet(DMineStep)
    \/ Quiet(DMineReturn)
    \/ Quiet(DGetBalance)
    \/ Quiet(DValidateChain)
    \/ Quiet(DSaveChain)
    \/ \E p \in Producers : Quiet(Receive(p))

\* the dispatcher task with every command but LoadChain
SpecAppend == AInit /\ [][ANext]_vars

\* a step of the dispatcher task
LDispatch ==
    \/ Quiet(DAddTransaction)
    \/ Quiet(DMineBlock)
    \/ Quiet(DMineStep)
    \/ Quiet(DMineReturn)
    \/ Quiet(DGetBalance)

LNext ==
    \/ \E p \in Producers : Quiet(NSend(p))
    \/ LDispatch
    \/ \E p \in Producers : Quiet(Receive(p))

\* the runtime polls a task that can go on: the dispatcher task takes the
\* next command or goes on with the one it has, and a producer whose reply
\* has arrived receives it
LFair ==
    /\ WF_vars(LDispatch)
    /\ \A p \in Producers : WF_vars(Quiet(Receive(p)))

\* producers and the dispatcher task under the scheduling of the runtime
SpecLive == NInit /\ [][LNext]_vars /\ LFair

SDifficulties == {1}

SInit == Init /\ difficulty \in SDifficulties

SNext ==
    \/ \E addr \in Multiaddrs : Quiet(P2P_start(addr))
    \/ \E peer \in Multiaddrs \cup {None} : Quiet(P2P_connect(peer))
    \/ Quiet(request_blockchain)
    \/ Quiet(P2P_run)
    \/ \E data \in Payloads : Quiet(FloodsubEvent(data))
    \/ \E list \in Lists(Peers \X MdnsAddrs) : Quiet(MdnsDiscovered(list))
    \/ \E list \in Lists(Peers \X MdnsAddrs) : Quiet(MdnsExpired(list))
    \/ Quiet(RunResponse)

\* the propagation task alone: startup, then the swarm's events and the loop
SpecSwarm == SInit /\ [][SNext]_vars

DropDifficulties == {1, HashLen + 1}

DropInit == Init /\ difficulty \in DropDifficulties

DropNext ==
    \/ \E p \in Producers : Quiet(Send(p))
    \/ \E p \in Producers : Quiet(DropReceiver(p))
    \/ Quiet(DAddTransaction)
    \/ Quiet(DMineBlock)
    \/ Quiet(DMineStep)
    \/ Quiet(DMinePanic)
    \/ Quiet(DMineReturn)
    \/ Quiet(DGetBalance)
    \/ Quiet(DValidateChain)
    \/ \E p \in Producers : Quiet(Receive(p))
    \/ \E p \in Producers : Quiet(Abandoned(p))

\* the dispatcher task with producers that may stop awaiting their replies
SpecDrop == DropInit /\ [][DropNext]_vars

\* a step that puts a command into the channel, recorded
Entering(A) ==
    /\ A
    /\ entered' = Append(entered, queue'[Len(queue')])
    /\ handled' = handled

\* a step in which the dispatcher task takes a command, recorded
Taking(A) ==
    /\ A
    /\ handled' = handled + 1
    /\ entered' = entered

ODifficulties == {1, HashLen + 1}
OCommands(p) ==
    {Cmd("AddTransaction", Tx("Alice", "Bob", 50), "", p), Cmd("MineBlock", NoTx, "Miner1", p),
     Cmd("GetBalance", NoTx, "Bob", p), Cmd("ValidateChain", NoTx, "", p)}

OInit == Init /\ difficulty \in ODifficulties

ONext ==
    \/ \E p \in Producers : Entering(SendOf(p, OCommands(p)))
    \/ Taking(DAddTransaction)
    \/ Taking(DMineBlock)
    \/ Quiet(DMineStep)
    \/ Quiet(DMinePanic)
    \/ Quiet(DMineReturn)
    \/ Taking(DGetBalance)
    \/ Taking(DValidateChain)
    \/ \E p \in Producers : Quiet(Receive(p))
    \/ \E p \in Producers : Quiet(Abandoned(p))

\* the dispatcher task with the history of its channel
SpecOrder == OInit /\ [][ONext]_vars

-----------------------------------------------------------------------------
(* Chains with arbitrary contents: `chain` is a public field, and the blocks
   it holds need not come from mining *)

Bogus == [k \in 1..HashLen |-> 15]

\* blocks to put after the blocks of c: any index, a previous_hash and a
\* hash that are right or wrong
ArbitraryBlocks(c) ==
    {[index |-> ix, timestamp |-> 1, transactions |-> <<>>, previous_hash |-> ph,
      nonce |-> 0, hash |-> IF ok THEN calculate_hash(
          [index |-> ix, timestamp |-> 1, transactions |-> <<>>,
           previous_hash |-> ph, nonce |-> 0, hash |-> <<>>]) ELSE Bogus] :
        ix \in {Len(c), 7},
        ph \in {<<0>>, Bogus} \cup (IF c = <<>> THEN {} ELSE {c[Len(c)].hash}),
        ok \in BOOLEAN}

VInit ==
    /\ chain = <<>>
    /\ pending_transactions = <<>>
    /\ difficulty \in {1}
    /\ mining_reward \in Rewards
    /\ new_block = NoBlock
    /\ pc = "ready"
    /\ call = NoCall
    /\ queue = <<>>
    /\ cur = NoCmd
    /\ prod = [p \in Producers |-> "idle"]
    /\ resp = [p \in Producers |-> <<>>]
    /\ sent = 0
    /\ disk = [path \in Paths |-> NoFile]
    /\ Idle

\* chain.push(block) on the public field
PushBlock ==
    /\ Len(chain) < MaxBlocks
    /\ \E b \in ArbitraryBlocks(chain) : chain' = Append(chain, b)
    /\ call' = NoCall
    /\ UNCHANGED <<pending_transactions, difficulty, mining_reward, new_block, pc, ovars>>

\* a call of Blockchain::is_chain_valid
IsChainValid ==
    /\ call' = [NoCall EXCEPT !.op = "is_chain_valid", !.len = Len(chain),
                              !.result = is_chain_valid, !.out = PrintedFrom(2)]
    /\ UNCHANGED <<chain, pending_transactions, difficulty, mining_reward, new_block, pc, ovars>>

\* a producer asks the dispatcher task for a validation
VSend(p) ==
    /\ sent < MaxValidations
    /\ SendOf(p, {Cmd("ValidateChain", NoTx, "", p)})

VNext ==
    \/ PushBlock
    \/ IsChainValid
    \/ \E p \in Producers : Quiet(VSend(p))
    \/ Quiet(DValidateChain)
    \/ \E p \in Producers : Quiet(Receive(p))

\* is_chain_valid on chains with arbitrary contents
SpecValid == VInit /\ [][VNext]_vars

RCommands(p) ==
    {Cmd("AddTransaction", Tx("Alice", "Bob", 50), "", p), Cmd("GetBalance", NoTx, "Bob", p),
     Cmd("ValidateChain", NoTx, "", p), Cmd("SaveChain", NoTx, "blockchain.json", p)}

\* a producer asks the dispatcher task for something that does not mine
RSend(p) ==
    /\ sent < MaxReads
    /\ SendOf(p, RCommands(p))

RNext ==
    \/ PushBlock
    \/ \E p \in Producers : Quiet(RSend(p))
    \/ Quiet(DAddTransaction)
    \/ Quiet(DGetBalance)
    \/ Quiet(DValidateChain)
    \/ Quiet(DSaveChain)
    \/ \E p \in Producers : Quiet(Receive(p))

\* the dispatcher task over chains with arbitrary contents
SpecRead == VInit /\ [][RNext]_vars

-----------------------------------------------------------------------------
(* Properties of the ledger engine *)

\* number of '0' characters the string h starts with, counted up to n
RECURSIVE LeadingZeros(_, _)
LeadingZeros(h, n) ==
    IF n = 0 \/ h = <<>> \/ Head(h) # 0 THEN 0
    ELSE 1 + LeadingZeros(Tail(h), n - 1)

MinedBlocks == Len(chain) - 1
RewardTx(addr) == Tx(RESERVED, addr, mining_reward)

\* a mine_pending_transactions call has just returned: this step appended its block
MineReturns == pc = "mining" /\ pc' = "ready"

\* the last ledger call was a mine_pending_transactions call and it has returned
MineReturned == call.op = "mine" /\ pc = "ready"

\* C1: every block after the first links to the stored hash of its
\* predecessor and carries the predecessor's index plus one.
C1_Linked ==
    \A i \in 2..Len(chain) :
        /\ chain[i].previous_hash = chain[i - 1].hash
        /\ chain[i].index = chain[i - 1].index + 1

C1_Witness ==
    /\ Len(chain) = 3
    /\ chain[3].previous_hash = chain[2].hash
    /\ chain[3].index = 2

\* C2: the chain is never empty and its first block has index 0, previous
\* hash "0" and no transactions.
C2_Genesis ==
    /\ Len(chain) >= 1
    /\ chain[1].index = 0
    /\ chain[1].previous_hash = <<0>>
    /\ chain[1].transactions = <<>>

C2_Witness ==
    /\ Len(chain) >= 2
    /\ pending_transactions # <<>>
    /\ chain[1].index = 0

\* C3: between ledger operations the stored hash of every block of the
\* chain, the first included, is the hash recomputed from its other fields.
C3_SelfConsistent ==
    pc = "ready" => \A i \in 1..Len(chain) : chain[i].hash = calculate_hash(chain[i])

C3_Witness ==
    /\ pc = "ready"
    /\ Len(chain) >= 2
    /\ chain[Len(chain)].nonce >= 2

\* C4: the stored hash of every block but the first starts with
\* `difficulty` characters '0'.
C4_ProofOfWork ==
    \A i \in 2..Len(chain) : LeadingZeros(chain[i].hash, difficulty) = difficulty

C4_Witness ==
    /\ Len(chain) >= 2
    /\ difficulty = 2
    /\ chain[1].hash[1] # 0

\* some nonce of the search range gives the candidate b a qualifying hash
NonceExists(b) == \E n \in 0..MaxNonce : ~NotMined(mine_iter(b, n), difficulty)

\* C5 as stated: whatever the difficulty, mine_pending_transactions returns
\* normally, and the block it appended has `difficulty` leading '0'.
C5_Original ==
    /\ pc # "panicked"
    /\ MineReturned =>
          /\ Len(chain) = call.len + 1
          /\ LeadingZeros(get_latest_block.hash, difficulty) = difficulty

\* the smallest qualifying nonce of the candidate b
FirstNonce(b) ==
    CHOOSE n \in 0..MaxNonce :
        /\ ~NotMined(mine_iter(b, n), difficulty)
        /\ \A m \in 0..(n - 1) : NotMined(mine_iter(b, m), difficulty)

\* C5 as amended: a call panics only when the difficulty exceeds the length
\* of the hash or no nonce of the range qualifies; in the first case it
\* panics at once and in the second it never returns, and the chain stays
\* as it was.  With a difficulty of at
\* most the length of the hash and a qualifying nonce, every step of the
\* search moves one nonce closer to the first qualifying one and the step at
\* that nonce returns; the step that returns appends one block, whose hash
\* has `difficulty` leading '0'.
C5_Amended ==
    [][/\ pc' = "panicked" => difficulty > HashLen \/ ~NonceExists(new_block)
       /\ (pc = "mining" /\ difficulty > HashLen) => pc' = "panicked" /\ chain' = chain
       /\ (pc = "mining" /\ difficulty <= HashLen /\ ~NonceExists(new_block)) =>
             ~MineReturns /\ chain' = chain
       /\ MineReturns =>
             /\ Len(chain') = Len(chain) + 1
             /\ LeadingZeros(chain'[Len(chain')].hash, difficulty) = difficulty
       /\ (pc = "mining" /\ difficulty <= HashLen /\ NonceExists(new_block)) =>
             IF new_block.nonce = FirstNonce(new_block)
             THEN MineReturns
             ELSE /\ pc' = "mining"
                  /\ new_block'.nonce = new_block.nonce + 1
                  /\ new_block'.nonce <= FirstNonce(new_block)]_vars

C5_Witness ==
    /\ MineReturned
    /\ difficulty >= 1
    /\ get_latest_block.nonce >= 1
    /\ LeadingZeros(get_latest_block.hash, difficulty) = difficulty

\* C6: the step in which a mine_pending_transactions(addr) call returns
\* makes the chain one block longer and empties the pool, and the new
\* block's transactions are the pool from before the call, in order,
\* followed by the one reward transaction for addr.
C6_MineEffect ==
    [][MineReturns =>
        /\ Len(chain') = Len(chain) + 1
        /\ SubSeq(chain', 1, Len(chain)) = chain
        /\ pending_transactions' = <<>>
        /\ chain'[Len(chain')].transactions = call.pool \o <<RewardTx(call.addr)>>
        /\ Len(chain) = call.len]_vars

C6_Witness ==
    /\ Len(chain) = 3
    /\ pending_transactions = <<>>
    /\ Len(chain[2].transactions) = 3
    /\ chain[2].transactions[3] = RewardTx("Miner1")
    /\ chain[3].transactions = <<RewardTx("Miner1")>>

\* the transactions of all blocks of the chain, as positions <<block, entry>>
Positions == {p \in (1..Len(chain)) \X (1..(MaxPending + 1)) :
                p[2] <= Len(chain[p[1]].transactions)}
TxAt(p) == chain[p[1]].transactions[p[2]]

RECURSIVE SumAmounts(_)
SumAmounts(S) ==
    IF S = {} THEN 0
    ELSE LET p == CHOOSE q \in S : TRUE
         IN  TxAt(p).amount + SumAmounts(S \ {p})

Received(a) == SumAmounts({p \in Positions : TxAt(p).receiver = a})
Sent(a) == SumAmounts({p \in Positions : TxAt(p).sender = a})

\* C8: the balance of every address is what it received minus what it sent
\* in the transactions of the blocks of the chain; the pool does not count.
C8_Balance == \A a \in Addresses : get_balance(a) = Received(a) - Sent(a)

C8_Witness ==
    /\ Len(chain) = 2
    /\ difficulty = 1
    /\ chain[2].transactions = <<Tx("Alice", "Bob", 50), RewardTx("Miner1")>>
    /\ chain[2].hash[1] = 0
    /\ pending_transactions = <<Tx("Alice", "Bob", 50)>>
    /\ get_balance("Miner1") = 100
    /\ get_balance("Alice") = 0 - 50
    /\ get_balance("Bob") = 50

RECURSIVE SumBalances(_)
SumBalances(S) ==
    IF S = {} THEN 0
    ELSE LET a == CHOOSE b \in S : TRUE
         IN  get_balance(a) + SumBalances(S \ {a})

\* a transaction submitted by a user names the reserved reward sender
NamesReserved(p) ==
    /\ p[2] < Len(chain[p[1]].transactions)
    /\ TxAt(p).sender = RESERVED \/ TxAt(p).receiver = RESERVED

TakesAdd ==
    /\ pc = "ready"
    /\ queue # <<>>
    /\ Head(queue).kind = "AddTransaction"
    /\ queue' = Tail(queue)

\* C7: an AddTransaction command is answered Success whatever its fields
\* and the sender's balance; it puts its transaction at the end of the
\* pool, keeps the entries before it in order, and leaves chain, difficulty
\* and mining_reward alone.
C7_AddTransaction ==
    [][TakesAdd =>
        LET c == Head(queue)
        IN  /\ resp'[c.from] = <<Success("Transaction added to pending pool", 0)>>
            /\ Len(pending_transactions') = Len(pending_transactions) + 1
            /\ pending_transactions'[Len(pending_transactions')] = c.tx
            /\ SubSeq(pending_transactions', 1, Len(pending_transactions))
                  = pending_transactions
            /\ UNCHANGED <<chain, difficulty, mining_reward>>]_vars

C7_Witness ==
    /\ \E p \in Producers :
          resp[p] = <<Success("Transaction added to pending pool", 0)>>
    /\ Len(pending_transactions) = 2
    /\ call.op = "add"
    /\ get_balance(call.tx.sender) < call.tx.amount

HashOk(i) == chain[i].hash = calculate_hash(chain[i])
LinkOk(i) == chain[i].previous_hash = chain[i - 1].hash

\* C10 as stated: is_chain_valid is true exactly when the stored hash of
\* every block is its recomputed hash and every block after the first
\* links to its predecessor's stored hash.
C10_Original ==
    call.op = "is_chain_valid" =>
        (call.result <=> /\ \A i \in 1..Len(chain) : HashOk(i)
                         /\ \A i \in 2..Len(chain) : LinkOk(i))

\* C10 as amended: is_chain_valid is true exactly when every block after
\* the first has its recomputed hash stored and links to its predecessor's
\* stored hash; the stored hash of the first block is not checked, and
\* neither are indexes or proof-of-work.
C10_Amended ==
    call.op = "is_chain_valid" =>
        (call.result <=> \A i \in 2..Len(chain) : HashOk(i) /\ LinkOk(i))

C10_Witness ==
    /\ call.op = "is_chain_valid"
    /\ call.result
    /\ Len(chain) = 3
    /\ ~HashOk(1)
    /\ chain[2].index = 7
    /\ LeadingZeros(chain[3].hash, difficulty) < difficulty

-----------------------------------------------------------------------------
(* Reports of is_chain_valid *)

\* the blocks, by 0-based index, that fail one of the two checks
Failing == {i \in 1..(Len(chain) - 1) : ~HashOk(i + 1) \/ ~LinkOk(i + 1)}

NoIndex == 0 - 1

\* the first failure of the scan from index 1 upward: its kind and index
FirstFailure ==
    LET F == Failing
    IN  IF F = {} THEN [kind |-> "Success", index |-> NoIndex]
        ELSE LET i == CHOOSE j \in F : \A k \in F : j <= k
             IN  [kind |-> IF ~HashOk(i + 1) THEN "HashMismatch" ELSE "LinkBroken",
                  index |-> i]

\* what the returned bool tells its caller
Told(result) == [kind |-> IF result THEN "Success" ELSE "Failure", index |-> NoIndex]

\* the dispatcher task answers the validation at the head of the queue
TakesValidate == pc = "ready" /\ queue # <<>> /\ queue' = Tail(queue)

-----------------------------------------------------------------------------
(* Order of execution *)

\* the ledger a sequence of commands produces when executed one after the
\* other: the transactions of each mined block and the pool left over
RECURSIVE Replay(_)
Replay(cmds) ==
    IF cmds = <<>> THEN [blocks |-> <<>>, pool |-> <<>>]
    ELSE LET r == Replay(SubSeq(cmds, 1, Len(cmds) - 1))
             c == cmds[Len(cmds)]
         IN  CASE c.kind = "AddTransaction" -> [r EXCEPT !.pool = Append(@, c.tx)]
               [] c.kind = "MineBlock" ->
                    [blocks |-> Append(r.blocks, Append(r.pool, RewardTx(c.addr))),
                     pool |-> <<>>]
               [] OTHER -> r

\* what the transactions txs add to and take from address a
RECURSIVE NetOf(_, _)
NetOf(txs, a) ==
    IF txs = <<>> THEN 0
    ELSE NetOf(Tail(txs), a)
           + (IF Head(txs).receiver = a THEN Head(txs).amount ELSE 0)
           - (IF Head(txs).sender = a THEN Head(txs).amount ELSE 0)

RECURSIVE NetOfBlocks(_, _)
NetOfBlocks(blocks, a) ==
    IF blocks = <<>> THEN 0 ELSE NetOf(Head(blocks), a) + NetOfBlocks(Tail(blocks), a)

\* C12: the dispatcher task takes the commands in the order in which they
\* entered the channel, whichever producers sent them; when it takes the
\* k-th command the ledger is what the first k-1 commands produce when
\* executed one after the other, and a balance reply is computed from that.
C12_Order ==
    [][handled' = handled + 1 =>
         LET c == Head(queue)
             r == Replay(SubSeq(entered, 1, handled))
         IN  /\ c = entered[handled + 1]
             /\ queue' = SubSeq(entered, handled + 2, Len(entered))
             /\ [i \in 1..(Len(chain) - 1) |-> chain[i + 1].transactions] = r.blocks
             /\ pending_transactions = r.pool
             /\ c.kind = "GetBalance" =>
                  resp'[c.from] = <<Success("Balance", NetOfBlocks(r.blocks, c.addr))>>]_vars

\* commands of two producers: an AddTransaction, then a MineBlock of the other
\* producer, then a GetBalance whose reply counts both
C12_Witness ==
    /\ handled = 3
    /\ entered[1].kind = "AddTransaction"
    /\ entered[2].kind = "MineBlock"
    /\ entered[1].from # entered[2].from
    /\ entered[3].kind = "GetBalance"
    /\ resp[entered[3].from] = <<Success("Balance", 50)>>
    /\ resp[entered[2].from] # <<>>

-----------------------------------------------------------------------------
(* Replies *)

\* the dispatcher task takes the command at the head of the queue
Takes == pc = "ready" /\ queue # <<>> /\ queue' = Tail(queue)

\* number of replies the step sends to producer p
Replies(p) == Len(resp'[p]) - Len(resp[p])

\* C13 as stated: every command the dispatcher task takes gets exactly one
\* reply before the next command is taken, and no ledger operation aborts
\* the dispatcher task.
C13_Claim ==
    [][/\ pc' # "panicked"
       /\ (Takes /\ pc' = "ready") => Replies(Head(queue).from) = 1
       /\ (Takes /\ pc' # "ready") => cur' = Head(queue)
       /\ MineReturns => Replies(cur.from) = 1
       /\ Takes => cur = NoCmd]_vars

\* C15 as stated: while the nonce search of a MineBlock command is running
\* the ledger lock is not held.
C15_Claim == pc = "mining" => lock = "free"

\* C17 as stated: a mine_pending_transactions call that does not complete
\* leaves the pool as it was before the call, and the chain unchanged.
C17_Claim ==
    (call.op = "mine" /\ pc = "panicked") =>
        /\ pending_transactions = call.pool
        /\ Len(chain) = call.len

\* C16: when the dispatcher task finishes a command whose reply receiver is
\* gone, the ledger operation has its whole effect, no reply lands anywhere,
\* and the task is free to take the next command.
C16_Dropped ==
    [][/\ (Takes /\ prod[Head(queue).from] = "gone") =>
            LET c == Head(queue)
            IN  /\ resp' = resp
                /\ c.kind = "AddTransaction" =>
                      /\ pending_transactions' = Append(pending_transactions, c.tx)
                      /\ pc' = "ready" /\ lock' = "free"
                /\ c.kind \in {"GetBalance", "ValidateChain"} =>
                      /\ UNCHANGED <<chain, pending_transactions>>
                      /\ pc' = "ready" /\ lock' = "free"
                /\ c.kind = "MineBlock" => pc' = "mining" /\ cur' = c
       /\ (MineReturns /\ prod[cur.from] = "gone") =>
            /\ resp' = resp
            /\ chain' = Append(chain, new_block)
            /\ pending_transactions' = <<>>
            /\ lock' = "free" /\ cur' = NoCmd]_vars

\* one producer sent a MineBlock and stopped awaiting the reply; the block
\* was mined all the same, and the command that followed, a GetBalance of
\* the other producer, was answered with the reward in the balance
C16_Witness ==
    \E p, q \in Producers :
        /\ prod[p] = "gone"
        /\ resp[p] = <<>>
        /\ sent = 2
        /\ Len(chain) = 2
        /\ pending_transactions = <<>>
        /\ resp[q] = <<Success("Balance", 100)>>

-----------------------------------------------------------------------------
(* Save and load *)

\* the dispatcher task takes a command of the given kind
TakesKind(kind) == Takes /\ Head(queue).kind = kind

\* the ledger a file holds
FileLedger(f) ==
    [chain |-> [i \in 1..Len(f.chain) |-> DecodeBlock(f.chain[i])],
     pending_transactions |->
         [i \in 1..Len(f.pending_transactions) |-> DecodeTx(f.pending_transactions[i])]]

\* C18: a LoadChain gets one reply.  When it is an Error, chain,
\* pending_transactions, difficulty and mining_reward are what they were;
\* when it is a Success, chain and pending_transactions are replaced
\* together, in the same step, by what the file holds, and difficulty and
\* mining_reward keep their values whatever the file holds.  A path with no
\* file or with undecodable contents gives an Error.
C18_Load ==
    [][TakesKind("LoadChain") =>
         LET c == Head(queue)
             f == disk[c.addr]
             r == resp'[c.from]
         IN  /\ Len(r) = 1
             /\ r[1].status \in {"Success", "Error"}
             /\ f.kind # "ledger" => r[1].status = "Error"
             /\ r[1].status = "Error" =>
                    UNCHANGED <<chain, pending_transactions, difficulty, mining_reward>>
             /\ r[1].status = "Success" =>
                    /\ chain' = FileLedger(f).chain
                    /\ pending_transactions' = FileLedger(f).pending_transactions
                    /\ UNCHANGED <<difficulty, mining_reward>>]_vars

\* a load of another node's file, which records difficulty 9 and reward 7,
\* has replaced a chain of one block and an empty pool, and the parameters
\* are still the node's own; the other producer's load had failed before
C18_Witness ==
    /\ call.op = "load" /\ call.result
    /\ call.len = 1 /\ call.pool = <<>>
    /\ Len(chain) = 2
    /\ pending_transactions = <<Tx("Bob", "Alice", 25)>>
    /\ difficulty = 1 /\ mining_reward = 100
    /\ \E p, q \in Producers :
         /\ resp[p] = <<Error("Failed to load blockchain")>>
         /\ resp[q] # <<>> /\ resp[q][1].status = "Success"

-----------------------------------------------------------------------------
(* The ledger and the tasks around it *)

Ledger == <<chain, pending_transactions, difficulty, mining_reward>>

\* C14: chain, pending_transactions, difficulty, mining_reward and the lock
\* change only in steps of the dispatcher task, taken while it handles a
\* command; no step of a producer (command line or interactive shell) and no
\* step of the propagation task touches them.
C14_OnlyDispatcher ==
    [][(Ledger' # Ledger \/ lock' # lock) =>
         /\ Takes \/ pc = "mining"
         /\ UNCHANGED <<nvars, prod, sent>>]_vars

\* a block was mined by the dispatcher task while the propagation task was
\* running, had received a NewBlock payload and knew a peer
C14_Witness ==
    /\ Len(chain) = 2
    /\ node = "running"
    /\ heard # <<>> /\ heard[1].type = "NewBlock"
    /\ known_peers # {}

\* C20: the receipt of a gossip payload, decodable or not, leaves the ledger,
\* known_peers and the dispatcher's channel as they are and the propagation
\* loop running; only a ChainResponse leaves a trace, its blocks handed to
\* the loop, which drops them without touching ledger or known_peers.
C20_Gossip ==
    [][/\ Len(heard') > Len(heard) =>
            LET data == heard'[Len(heard')]
            IN  /\ UNCHANGED <<Ledger, known_peers, partial_view, queue, lock>>
                /\ node' = "running"
                /\ responses' = IF data.type = "ChainResponse"
                                THEN Append(responses, Blocks(data.blocks)) ELSE responses
       /\ (responses # <<>> /\ responses' = Tail(responses)
              /\ Head(responses).kind = "Blocks") =>
            /\ UNCHANGED <<Ledger, known_peers, partial_view, queue, lock>>
            /\ node' = "running"]_vars

\* a node that knows a peer has received a ChainResponse and its loop has
\* taken the blocks: the peer is still known and the chain is the genesis block
C20_Witness ==
    /\ node = "running"
    /\ heard # <<>> /\ heard[1].type = "ChainResponse"
    /\ responses = <<>>
    /\ known_peers = {"peerA"}
    /\ Len(chain) = 1 /\ pending_transactions = <<>>

-----------------------------------------------------------------------------
(* Discovery *)

\* the peers the discovery service still reports
Reachable == {peer \in Peers : has_node(mdns_nodes, peer)}

\* C21: a discovered peer is put into the partial view and into known_peers;
\* an expired peer is taken out of both, unless the discovery service still
\* reports it, and then it stays in both. So once the loop has handled every
\* notification, the partial view and known_peers both hold exactly the peers
\* the discovery service reports.
C21_Claim ==
    responses = <<>> => partial_view = Reachable /\ known_peers = Reachable

-----------------------------------------------------------------------------
(* Startup of the propagation task *)

ChainRequested == <<Published("blocks", [type |-> "ChainRequest"])>>

\* the startup has ended without a listener: the address did not parse, or
\* listen_on refused it
BindFailed == node \in {"failed", "panicked"} /\ ~net.listening

\* C22: start_p2p_node binds first, dials next if a peer is configured, then
\* publishes one ChainRequest on the blocks topic, and only then enters the
\* event loop. A bind that fails ends the startup with an error: from then on
\* nothing is dialed or published, the loop is not entered, and listen_on is
\* not called again.
C22_Startup ==
    [][/\ net'.binds > net.binds =>
            node = "off" /\ net.binds = 0 /\ net.dials = 0 /\ net.published = <<>>
       /\ net'.dials > net.dials =>
            net.listening /\ net.dials = 0 /\ net.published = <<>> /\ node = "listening"
       /\ net'.published # net.published =>
            /\ net.listening /\ net.published = <<>> /\ net'.published = ChainRequested
            /\ node # "running" /\ node' # "running"
       /\ node' = "running" /\ node # "running" =>
            net.listening /\ net.published = ChainRequested
       /\ node = "off" /\ node' # "off" /\ ~net'.listening => BindFailed'
       /\ BindFailed => net' = net /\ node' = node]_vars

C22_Witness == BindFailed /\ node = "panicked" /\ net.binds = 1

\* C23: a dial that fails is reported and the node goes on: once listening,
\* the startup never ends in an error, so the ChainRequest is still published
\* and the event loop is still entered.
C23_Claim == net.listening => node \notin {"failed", "panicked"}

-----------------------------------------------------------------------------
(* The chain over time *)

\* C24: under AddTransaction, MineBlock, GetBalance, ValidateChain and
\* SaveChain the chain only grows at its end: every step keeps each block
\* where it is, with all six fields as they were, and so never shortens the
\* chain.
C24_AppendOnly ==
    [][/\ Len(chain') >= Len(chain)
       /\ \A i \in 1..Len(chain) : chain'[i] = chain[i]]_vars

\* two blocks mined on top of the genesis block, and the chain saved since
C24_Witness ==
    /\ Len(chain) = 3
    /\ saved["blockchain.json"].chain = chain
    /\ \E p \in Producers : resp[p] # <<>> /\ resp[p][1].what = "Blockchain saved"

\* C25: the GetBalance, ValidateChain and SaveChain arms leave chain,
\* pending_transactions, difficulty and mining_reward as they are, whatever
\* they reply: also when the validation finds the chain invalid and when the
\* save fails.
C25_Frame ==
    [][TakesKind("GetBalance") \/ TakesKind("ValidateChain") \/ TakesKind("SaveChain")
          => UNCHANGED Ledger]_vars

\* an invalid chain of three blocks and a pool of one transaction, with
\* "Invalid" replied to one producer and a failed save to the other
C25_Witness ==
    /\ Len(chain) = 3 /\ ~is_chain_valid
    /\ \E p, q \in Producers :
         /\ resp[p] # <<>> /\ resp[p][1] = Success("Blockchain validation", "Invalid")
         /\ resp[q] # <<>> /\ resp[q][1] = Error("Failed to save blockchain")

-----------------------------------------------------------------------------
(* The order of the nonce search *)

\* C26: the search tests nonce 0 first, on the hash computed when the block
\* was built, and goes on one nonce at a time; the block that is appended
\* carries the smallest nonce whose hash has `difficulty` leading '0' and
\* the hash of that nonce, and with difficulty 0 it is the block as built:
\* nonce 0 and the hash computed at construction.
C26_Search ==
    [][/\ pc = "ready" /\ pc' = "mining" =>
            /\ new_block'.nonce = 0
            /\ new_block' = Block_new(new_block'.index, new_block'.timestamp,
                                      new_block'.transactions, new_block'.previous_hash)
       /\ pc = "mining" /\ new_block' # new_block /\ ~MineReturns =>
            /\ NotMined(new_block, difficulty)
            /\ new_block'.nonce = (new_block.nonce + 1) % (MaxNonce + 1)
            /\ new_block' = mine_iter(new_block, new_block'.nonce)
       /\ MineReturns =>
            LET b == chain'[Len(chain')]
            IN  /\ b = new_block
                /\ NonceExists(b)
                /\ b.nonce = FirstNonce(b)
                /\ LeadingZeros(b.hash, difficulty) = difficulty
                /\ \A n \in 0..(b.nonce - 1) :
                      LeadingZeros(mine_iter(b, n).hash, difficulty) < difficulty
                /\ difficulty = 0 =>
                      /\ b.nonce = 0
                      /\ b = Block_new(b.index, b.timestamp, b.transactions, b.previous_hash)]_vars

\* a block appended after the search had to pass nonces 0 and 1
C26_Witness ==
    /\ MineReturned
    /\ difficulty > 0
    /\ get_latest_block.nonce >= 2

-----------------------------------------------------------------------------
(* Progress of the dispatcher task *)

\* every nonce search that starts returns
SearchReturns == [](pc = "mining" => <>(pc = "ready"))

-----------------------------------------------------------------------------
(* Discovery notifications over time *)

\* known_peers after the loop has handled the notifications rs, in order
RECURSIVE Applied(_, _)
Applied(known, rs) ==
    IF rs = <<>> THEN known
    ELSE Applied(CASE Head(rs).kind = "PeerDiscovered" -> known \cup {Head(rs).peer}
                   [] Head(rs).kind = "PeerExpired" -> known \ {Head(rs).peer}
                   [] OTHER -> known,
                 Tail(rs))

\* the peers whose latest discovery event was Discovered
LastDiscovered == {peer \in Peers : last_event[peer] = "Discovered"}

\* C28: the notifications of the discovery handlers wait in one channel and
\* the loop applies them in the order in which the events were handled:
\* known_peers with the waiting notifications applied in order is the set of
\* peers whose latest discovery event was Discovered, and so is known_peers
\* itself whenever nothing waits.
C28_Order ==
    /\ Applied(known_peers, responses) = LastDiscovered
    /\ responses = <<>> => known_peers = LastDiscovered

\* between the handler and the loop: a discovered peer is in the partial
\* view and not yet in known_peers, after another peer has come and gone
C28_Witness ==
    \E p, q \in Peers :
        /\ p # q
        /\ responses = <<PeerDiscovered(p)>>
        /\ p \in partial_view /\ p \notin known_peers
        /\ last_event[q] = "Expired" /\ q \notin known_peers

=============================================================================
